---- MODULE Spec2Model ----
(***************************************************************************)
(* ffmpeg-service: one HTTP job (image + audio references -> video) as it  *)
(* is served by each of the request handlers kept in the repository.       *)
(* The job is a sequential program of suspension points (remote fetch,     *)
(* temp-file write, filter construction, encoder subprocess, response);    *)
(* the remote origin, the disk and the encoder process are the             *)
(* environment and choose their behaviour nondeterministically.            *)
(***************************************************************************)
EXTENDS Integers, Sequences, FiniteSets, TLC

\* ---------------------------------------------------------------- bounds
MaxAudio == 2
MaxChunks == 17
MaxClock == 1
\* the largest number a caller sends as a style parameter
MaxStyle == 1000
\* calls of a helper function on the same arguments
MaxCalls == 2
\* characters of a resolution string sent by a caller
MaxLen == 5
\* stderr 'data' events delivered to runFFmpeg
MaxRecv == 5

\* ------------------------------------------------------ program constants
\* const ERR_CAP = 200 * 1024 (runFFmpeg keeps only the stderr tail)
ERR_CAP == 200 * 1024
\* child_process.execFile / exec called without a maxBuffer option:
\* Node's default of 1 MiB, after which the child is killed
DefaultMaxBuffer == 1024 * 1024
\* exec / execFile called with { maxBuffer: 1024 * 1024 * 20 }
ShMaxBuffer == 1024 * 1024 * 20
\* detail.slice(-1500): the cap the multi-audio handler puts on `detail`
DETAIL_CAP == 1500
\* stderr.split('\n').slice(-12): lines of stderr kept in `detail`
DETAIL_LINES == 12
\* resolution = "720x1280", fps = 24: defaults of the request body
DefaultW == 720
DefaultH == 1280
DefaultFps == 24
\* size of the stderr 'data' chunks the encoder's pipe delivers
\* (a full pipe read: 64 KiB)
ChunkSizes == {64 * 1024}

\* ------------------------------------------------------------- handlers
\* The /make/segments and /make/story handlers of the repository.
Variants ==
    {"p4", "js1", "js2", "cjs1", "cjs2", "story", "perseg", "p1", "p1s", "p5",
     "make"}

\* what the remote origin does with one GET
RemoteBehaviours ==
    {"ok", "http404", "refuse", "silent", "stall", "streamErr", "diskErr"}

NoTag == <<"none", 0>>

\* ------------------------------------------------------------- programs
\* arg: for a fetch what a rejection does ("throw", "swallow"), for an
\* encode the directory of its output ("tmp", "out")
Op(o, role, kind, arg) ==
    [op |-> o, role |-> role, kind |-> kind, arg |-> arg]
Fetch(role, dl)         == Op("fetch", role, dl, "throw")
FetchSoft(role, dl)     == Op("fetch", role, dl, "swallow")
WriteTmp(role)          == Op("write", role, "-", "throw")
ParseRes                == Op("parseRes", NoTag, "-", "throw")
Build                   == Op("build", NoTag, "-", "throw")
Encode(role, dir, ex)   == Op("encode", role, ex, dir)
Cleanup                 == Op("cleanup", NoTag, "-", "throw")
Respond                 == Op("respond", NoTag, "-", "throw")

Img == <<"img", 0>>
Sub == <<"sub", 0>>
Out == <<"out", 0>>
Aud(i) == <<"aud", i>>

RECURSIVE Flat(_)
Flat(ss) == IF ss = <<>> THEN <<>> ELSE Head(ss) \o Flat(Tail(ss))

\* the audio downloads `for (const u of audio_urls) await download(u)`
FetchAudios(n, dl) == [i \in 1..n |-> Fetch(Aud(i), dl)]

\* subtitle by URL (downloaded) or inline text / captions (written locally)
SubStep(r, dl) ==
    IF r.sub = "url" THEN <<Fetch(Sub, dl)>>
    ELSE IF r.sub = "inline" THEN <<WriteTmp(Sub)>>
    ELSE <<>>

\* multi-audio filter-graph handler
Prog_p4(r) ==
    <<Fetch(Img, "axiosPipeT")>>
    \o FetchAudios(r.n, "axiosPipeT")
    \o SubStep(r, "axiosPipeT")
    \o <<Build, Encode(Out, "out", "spawnAwait"), Respond>>

\* exec-based handler: audio concat by a first ffmpeg run, filters built,
\* then the subtitle fetch, then the render
Prog_js1(r) ==
    <<Fetch(Img, "fetchBuf")>>
    \o FetchAudios(r.n, "fetchBuf")
    \o (IF r.n > 1
        THEN <<WriteTmp(<<"list", 0>>), Encode(<<"concat", 0>>, "tmp", "exec")>>
        ELSE <<>>)
    \o <<Build>>
    \o SubStep(r, "fetchBuf")
    \o <<Encode(Out, "out", "exec"), Respond>>

\* execFile-based handler with runFFmpeg(args, logTag)
Prog_js2(r) ==
    <<Fetch(Img, "axiosBuf")>>
    \o FetchAudios(r.n, "axiosBuf")
    \o (IF r.n > 1
        THEN <<WriteTmp(<<"list", 0>>),
               Encode(<<"concat", 0>>, "tmp", "execFileNoCb")>>
        ELSE <<>>)
    \o SubStep(r, "axiosBuf")
    \o <<Build, Encode(Out, "out", "execFileNoCb"), Respond>>

\* spawn + p.on('close') responder; only audio_urls[0] is used and a failed
\* subtitle download is logged and skipped
Prog_cjs1(r) ==
    <<Fetch(Img, "axiosPipeT"), Fetch(Aud(1), "axiosPipeT")>>
    \o (IF r.sub = "url" THEN <<FetchSoft(Sub, "axiosPipeT")>> ELSE <<>>)
    \o <<Build, Encode(Out, "out", "closeResp")>>

\* single-audio handler with fetchToFile and the ring-buffered runFFmpeg
Prog_cjs2(r) ==
    <<Fetch(Img, "fetchPipe"), Fetch(Aud(1), "fetchPipe")>>
    \o (IF r.sub = "url" THEN <<Fetch(Sub, "fetchPipe")>> ELSE <<>>)
    \o <<ParseRes, Build, Encode(Out, "out", "ring"), Cleanup, Respond>>

\* StorySeg with the padding test `i < audio_urls.length` (one too far)
StorySeg_PadAfterLast(r, i) ==
    <<Fetch(Aud(i), "axiosPipeEarly"), Build, Encode(<<"seg", i>>, "tmp", "sh")>>
    \o (IF r.pad /\ i < r.n + 1
        THEN <<Build, Encode(<<"pad", i>>, "tmp", "sh")>>
        ELSE <<>>)

\* /make/story: per audio a segment encode (and a padding encode between
\* segments), then the concatenation encode
StorySeg(r, i) ==
    <<Fetch(Aud(i), "axiosPipeEarly"), Build, Encode(<<"seg", i>>, "tmp", "sh")>>
    \o (IF r.pad /\ i < r.n
        THEN <<Build, Encode(<<"pad", i>>, "tmp", "sh")>>
        ELSE <<>>)
Prog_story(r) ==
    <<Fetch(Img, "axiosPipeEarly")>>
    \o Flat([i \in 1..r.n |-> StorySeg(r, i)])
    \o <<Build, Encode(Out, "out", "sh"), Respond>>

\* PerSeg writing every segment to the name of the first
PerSeg_SameName(i) ==
    <<Fetch(Aud(i), "axiosPipeEarly"), Build, Encode(<<"out", 1>>, "out", "sh")>>

\* /make/segments, one output per audio reference
PerSeg(i) ==
    <<Fetch(Aud(i), "axiosPipeEarly"), Build, Encode(<<"out", i>>, "out", "sh")>>
Prog_perseg(r) ==
    <<Fetch(Img, "axiosPipeEarly")>>
    \o Flat([i \in 1..r.n |-> PerSeg(i)])
    \o <<Respond>>

\* URLs handed to ffmpeg as inputs, output written to /tmp (served as /output)
Prog_p1(r) ==
    <<Build, Encode(Out, "out", "spawnCloseOnly"), Respond>>

\* URLs handed to ffmpeg as inputs, sh(cmd, args) = execFile with a callback
Prog_p5(r) ==
    <<Build, Encode(Out, "out", "execFileCb"), Respond>>

\* the same handler called with ?stream=1: runFfmpegStream writes the
\* response itself, nothing follows it in the handler
Prog_p1s(r) ==
    <<Build, Encode(Out, "out", "stream")>>

\* /make: image and audio_url downloaded, then exec(ffmpegCmd, callback);
\* the callback answers 500 on err and 200 otherwise
Prog_make(r) ==
    <<Fetch(Img, "fetchBuf"), Fetch(Aud(1), "fetchBuf"), Build,
      Encode(Out, "out", "exec"), Respond>>

Prog(v, r) ==
    CASE v = "p4"     -> Prog_p4(r)
      [] v = "js1"    -> Prog_js1(r)
      [] v = "js2"    -> Prog_js2(r)
      [] v = "cjs1"   -> Prog_cjs1(r)
      [] v = "cjs2"   -> Prog_cjs2(r)
      [] v = "story"  -> Prog_story(r)
      [] v = "perseg" -> Prog_perseg(r)
      [] v = "p1"     -> Prog_p1(r)
      [] v = "p1s"    -> Prog_p1s(r)
      [] v = "p5"     -> Prog_p5(r)
      [] v = "make"   -> Prog_make(r)

\* ------------------------------------------------------------- requests
\* req.audKind: the audio_urls field is absent, JSON null, or a list of n
\* entries; req.audio_url: the single-audio field some handlers read
ListLen(r) == IF r.audKind = "list" THEN r.n ELSE 0

\* the fields each handler destructures from req.body
ReqFields(v) ==
    [img : BOOLEAN,
     audKind : {"absent", "null", "list"},
     n : 0..MaxAudio,
     audio_url : IF v \in {"cjs2", "make"} THEN BOOLEAN ELSE {FALSE},
     out_name : IF v = "make" THEN BOOLEAN ELSE {TRUE},
     sub : CASE v \in {"p4", "js1", "js2"} -> {"none", "url", "inline"}
             [] v \in {"cjs1", "cjs2"}     -> {"none", "url"}
             [] OTHER                      -> {"none"},
     res : IF v \in {"p4", "cjs1", "cjs2", "story", "perseg", "p5"}
           THEN {"ok", "bad"} ELSE {"ok"},
     pad : IF v = "story" THEN BOOLEAN ELSE {FALSE}]

Requests(v) ==
    {r \in ReqFields(v) :
        /\ (r.audKind = "list") \/ (r.n = 0)
        /\ (v = "make") => (r.audKind = "absent")}

\* the environment of the process: is the ffmpeg binary installed, and
\* does the Response body of the platform's fetch have a .pipe method
Envs(v) ==
    [engine : {"present", "absent"},
     pipe : IF v = "cjs2" THEN BOOLEAN ELSE {TRUE}]

\* ---------------------------------------------------------- validation
\* 0 when the request passes, else the status the handler answers with
\* before it starts any work
\* Validate_p4 without the `audio_urls.length === 0` test
Validate_p4_NoLengthTest(r) ==
    IF ~r.img THEN 400
    ELSE IF r.audKind # "list" THEN 400
    ELSE 0

Validate_p4(r) ==
    IF ~r.img THEN 400
    ELSE IF r.audKind # "list" \/ r.n = 0 THEN 400
    ELSE 0

Validate_js(r) ==
    IF ~r.img \/ r.audKind # "list" \/ r.n = 0 THEN 400 ELSE 0

\* !image_url || !audio_urls.length : null.length throws inside the try
Validate_cjs1(r) ==
    IF ~r.img THEN 400
    ELSE IF r.audKind = "null" THEN 500
    ELSE IF ListLen(r) = 0 THEN 400
    ELSE 0

\* finalAudio = audio_url || (Array.isArray(audio_urls) ? audio_urls[0] : undefined)
Validate_cjs2(r) ==
    IF ~r.img THEN 400
    ELSE IF ~(r.audio_url \/ ListLen(r) > 0) THEN 400
    ELSE 0

\* /make/story and the per-segment /make/segments: list, then resolution
Validate_p0(r) ==
    IF ~r.img \/ r.audKind # "list" \/ r.n = 0 THEN 400
    ELSE IF r.res = "bad" THEN 400
    ELSE 0

\* audioUrls = Array.isArray(body.audio_urls) ? body.audio_urls : []
Validate_p1(r) ==
    IF ~r.img \/ ListLen(r) = 0 THEN 400 ELSE 0

Validate_p5(r) ==
    IF ~r.img \/ r.audKind # "list" \/ r.n = 0 THEN 400
    ELSE IF r.res = "bad" THEN 400
    ELSE 0

\* if (!image_url || !audio_url || !out_name)
Validate_make(r) ==
    IF ~r.img \/ ~r.audio_url \/ ~r.out_name THEN 400 ELSE 0

Validation(v, r) ==
    CASE v = "p4"                 -> Validate_p4(r)
      [] v \in {"js1", "js2"}     -> Validate_js(r)
      [] v = "cjs1"               -> Validate_cjs1(r)
      [] v = "cjs2"               -> Validate_cjs2(r)
      [] v \in {"story", "perseg"} -> Validate_p0(r)
      [] v \in {"p1", "p1s"}      -> Validate_p1(r)
      [] v = "make"               -> Validate_make(r)
      [] v = "p5"                 -> Validate_p5(r)

\* ------------------------------------------------------------ downloads
\* Downloaders: "axiosPipeT"     axios stream + timeout, file opened after
\*                               the response arrived (downloadTo, downloadToTmp)
\*              "axiosPipeEarly" write stream opened first, axios without
\*                               timeout (downloadToTemp)
\*              "fetchBuf"       node-fetch, arrayBuffer, writeFileSync
\*              "axiosBuf"       axios arraybuffer without timeout, writeFileSync
\*              "fetchPipe"      fetch, res.ok check, res.body.pipe(file)
HeadersOk(b) == b \in {"ok", "stall", "streamErr", "diskErr"}

\* does the download promise resolve, reject, or never settle
DLOutcome(d, b, pipe) ==
    CASE d = "axiosPipeT" ->
           IF b = "ok" THEN "resolve"
           ELSE IF b \in {"http404", "refuse", "silent", "diskErr"} THEN "reject"
           ELSE "hang"
      [] d = "axiosPipeEarly" ->
           IF b = "ok" THEN "resolve"
           ELSE IF b \in {"http404", "refuse", "diskErr"} THEN "reject"
           ELSE "hang"
      [] d \in {"fetchBuf", "axiosBuf"} ->
           IF b = "ok" THEN "resolve"
           ELSE IF b \in {"http404", "refuse", "streamErr", "diskErr"} THEN "reject"
           ELSE "hang"
      [] d = "fetchPipe" ->
           IF ~pipe THEN "reject"
           ELSE IF b = "ok" THEN "resolve"
           ELSE IF b \in {"http404", "refuse", "streamErr", "diskErr"} THEN "reject"
           ELSE "hang"

\* the download target once the request is under way: "none" while no
\* file has been created
DLStart(d, b, pipe) ==
    CASE d = "axiosPipeT" -> IF HeadersOk(b) THEN "partial" ELSE "none"
      [] d = "axiosPipeEarly" -> IF HeadersOk(b) THEN "partial" ELSE "empty"
      [] d \in {"fetchBuf", "axiosBuf"} -> "none"
      [] d = "fetchPipe" ->
           IF ~HeadersOk(b) THEN "none"
           ELSE IF pipe THEN "partial" ELSE "empty"

\* the download target when the promise settles
DLEnd(d, b, pipe) ==
    IF DLOutcome(d, b, pipe) = "resolve" THEN "complete"
    ELSE IF d \in {"fetchBuf", "axiosBuf"} /\ b = "diskErr" THEN "partial"
    ELSE DLStart(d, b, pipe)

\* ---------------------------------------------------------------- files
Put(f, tag, dir, st) ==
    [t \in DOMAIN f \cup {tag} |->
        IF t = tag THEN [dir |-> dir, st |-> st] ELSE f[t]]
PutIf(f, tag, dir, st) == IF st = "none" THEN f ELSE Put(f, tag, dir, st)
Remove(f, S) == [t \in DOMAIN f \ S |-> f[t]]

\* ------------------------------------------------------------ responses
Err(kind, code) == [kind |-> kind, code |-> code]
NoResp == [status |-> 0, error |-> "none", e |-> Err("none", "-")]
OkResp == [status |-> 200, error |-> "none", e |-> Err("ok", "-")]

\* the `error` field of the 500 body written by each handler's catch block;
\* "message" when the field is the thrown error's own message
CatchLabel(v) ==
    CASE v = "p4"   -> "ffmpeg failed"
      [] v = "js2"  -> "FFmpeg process failed"
      [] v = "cjs1" -> "internal"
      [] OTHER      -> "message"

ErrResp(v, e) == [status |-> 500, error |-> CatchLabel(v), e |-> e]

\* ---------------------------------------------------------- filter graph
\* pads and labels of the audio chain: [k:a], [a<k>], [aud]
InPad(k) == <<"in", k>>
Lbl(k) == <<"a", k>>
AudOut == <<"aud", 0>>
Stage(f, n, ins, out) == [f |-> f, n |-> n, ins |-> ins, out |-> out]

\* AudioFilters with the concat references in descending order
AudioFilters_Reversed(aCount) ==
    IF aCount = 0 THEN <<Stage("anullsrc", 0, << >>, AudOut)>>
    ELSE IF aCount = 1 THEN <<Stage("normalize+pan", 0, <<InPad(1)>>, AudOut)>>
    ELSE [idx \in 1..aCount |-> Stage("normalize", 0, <<InPad(idx)>>, Lbl(idx))]
         \o <<Stage("concat", aCount,
                    [i \in 1..aCount |-> Lbl(aCount + 1 - i)], AudOut)>>

\* buildFilterChain, audio part: anullsrc for no audio; one track is
\* aformat,aresample,pan into [aud]; several tracks are each
\* aformat,aresample into [a<idx>] and then concat=n=aCount:v=0:a=1[aud]
AudioFilters(aCount) ==
    IF aCount = 0 THEN <<Stage("anullsrc", 0, << >>, AudOut)>>
    ELSE IF aCount = 1 THEN <<Stage("normalize+pan", 0, <<InPad(1)>>, AudOut)>>
    ELSE [idx \in 1..aCount |-> Stage("normalize", 0, <<InPad(idx)>>, Lbl(idx))]
         \o <<Stage("concat", aCount, [i \in 1..aCount |-> Lbl(i)], AudOut)>>

\* buildAudioConcatInputs: filter = `concat=n=${n}:v=0:a=1[outa]`
AudioConcat(n) == <<Stage("concat", n, << >>, <<"outa", 0>>)>>

\* segmentPaths: the outputs of the segment and padding encodes the
\* program has completed before position i
IsSegEncode(o) == o.op = "encode" /\ o.arg = "tmp"
SegmentPaths(p, i) ==
    LET done == SelectSeq(SubSeq(p, 1, i - 1), IsSegEncode)
    IN  [k \in 1..Len(done) |-> done[k].role]

\* the audio references (positions in audio_urls, 0 for audio_url) that
\* the command built at position i of program p gives the encoder, in the
\* order of its inputs
AudioRefs(v, r, p, i) ==
    CASE v \in {"p4", "p5", "js1", "js2"} -> [k \in 1..r.n |-> k]
      [] v \in {"cjs1", "p1", "p1s"}      -> <<1>>
      [] v = "cjs2"                        -> IF r.audio_url THEN <<0>> ELSE <<1>>
      [] v = "make"                        -> <<0>>
      [] OTHER ->
           IF i > 1 /\ p[i - 1].op = "fetch" THEN <<p[i - 1].role[2]>>
           ELSE << >>

NoGraph == [audio |-> << >>, afilters |-> << >>, concat |-> << >>, n |-> 0]

\* the command the handler constructs at position i of its program
GraphOf(v, r, p, i) ==
    LET final == v = "story" /\ i < Len(p) /\ p[i + 1].role = Out
        segs == IF final THEN SegmentPaths(p, i) ELSE << >>
    IN  [audio |-> AudioRefs(v, r, p, i),
         afilters |-> CASE v = "p4" -> AudioFilters(r.n)
                        [] v = "p5" -> AudioConcat(r.n)
                        [] OTHER    -> << >>,
         concat |-> segs,
         n |-> Len(segs)]

\* String(i + 1).padStart(2, '0'), as a sequence of decimal digits
RECURSIVE Digits(_)
Digits(m) == IF m < 10 THEN <<m>> ELSE Digits(m \div 10) \o <<m % 10>>
RECURSIVE PadStart(_, _, _)
PadStart(d, w, fill) == IF Len(d) >= w THEN d ELSE PadStart(<<fill>> \o d, w, fill)
SeqSuffix(i) == PadStart(Digits(i), 2, 0)

\* urls: one address per output encode the program has completed before
\* position i, each carrying its outName's sequence suffix
IsOutEncode(o) == o.op = "encode" /\ o.arg = "out"
OutputsDone(p, i) ==
    LET done == SelectSeq(SubSeq(p, 1, i - 1), IsOutEncode)
    IN  [k \in 1..Len(done) |-> done[k].role]
Urls(p, i) ==
    LET outs == OutputsDone(p, i)
    IN  [k \in 1..Len(outs) |-> SeqSuffix(outs[k][2])]

\* ------------------------------------------------------ concurrent names
JobIds == {1, 2}
IdleJob == [st |-> "idle", prefix |-> "-", k |-> 0, tmps |-> {}, outs |-> {}]

\* outfile_prefix / outfile / out_name of a request; "none": field omitted
Prefixes == {"a", "b", "none"}
PrefixesOf(v) == IF v = "make" THEN Prefixes \ {"none"} ELSE Prefixes

\* a file name: directory, fixed text, Date.now() part (-1: none), random
\* part (0: none), sequence number (0: none)
Name(dir, base, ms, rnd, idx) ==
    [dir |-> dir, base |-> base, ms |-> ms, rnd |-> rnd, idx |-> idx]

\* Math.random() / crypto.randomBytes: taken never to repeat; the k-th draw
\* of job j
Nonce(j, k) == 100 * j + k

\* `outfile_prefix = "out"` and the other defaults of the destructuring
PrefixOr(v, prefix) ==
    IF prefix # "none" THEN prefix
    ELSE CASE v = "p5"  -> "video"
           [] v = "js2" -> "seg"
           [] OTHER     -> "out"

\* the name handler v gives the output of its encode op with this role
\* when job j builds it at time t as its k-th file
OutName(v, role, prefix, t, j, k) ==
    CASE v \in {"p4", "cjs1", "cjs2", "p1", "p1s", "p5"} ->
           Name("out", PrefixOr(v, prefix), t, 0, 0)
      [] v \in {"js1", "js2"} ->
           Name("out", PrefixOr(v, prefix), t, Nonce(j, k), 0)
      [] v = "story" ->
           IF prefix = "none" THEN Name("out", "story", t, Nonce(j, 0), 0)
           ELSE Name("out", prefix, -1, 0, 0)
      [] v = "perseg" ->
           IF prefix = "none" THEN Name("out", "seg", t, Nonce(j, 0), role[2])
           ELSE Name("out", prefix, -1, 0, role[2])
      [] v = "make" -> Name("out", prefix, -1, 0, 0)

\* the name of a temp file: /make uses `${Date.now()}_img.png` and
\* `${Date.now()}_aud.mp3`, the exec-based handler `list_${Date.now()}.txt`,
\* `concat_${Date.now()}.mp3` and `subs_${Date.now()}.srt`; every other
\* temp name carries a random part
TmpName(v, role, t, j, k) ==
    IF v = "make" \/ (v = "js1" /\ role[1] \in {"list", "concat", "sub"})
    THEN Name("tmp", role[1], t, 0, 0)
    ELSE Name("tmp", role[1], t, Nonce(j, k), role[2])

\* the steps of a program that create a file, in order
IsFileOp(o) == o.op \in {"fetch", "write", "encode"}
FileOps(p) == SelectSeq(p, IsFileOp)

NameOf(v, o, prefix, t, j, k) ==
    IF o.op = "encode" /\ o.arg = "out"
    THEN OutName(v, o.role, prefix, t, j, k)
    ELSE TmpName(v, o.role, t, j, k)
\* ---------------------------------------------------------------- state
VARIABLES
    variant,        \* the handler serving the request
    req,            \* the request body
    env,            \* the process environment
    pc,             \* "recv", "run", "fetching", "encoding", "done", "crashed"
    ip,             \* position in the handler's program
    dl,             \* behaviour of the remote in the fetch in flight
    files,          \* files on disk: tag -> [dir, st]
    have,           \* roles whose local path variable is set
    built,          \* a filter graph / command filter has been constructed
    child,          \* encoder process: none, running, errored, killed, closed
    nspawn,         \* encoder subprocesses started by the job
    nfetch,         \* remote fetches started by the job
    resp,           \* the response sent
    nresp,          \* number of responses sent
    pendingUnlink,  \* fs.unlink calls issued and not yet done
    errBuf,         \* runFFmpeg: chunks kept (their lengths)
    errSize,        \* stderr bytes the executor keeps in memory
    nchunks,        \* stderr 'data' events of the current encode
    total,          \* stderr bytes written by the current encoder
    dropped,        \* how the executor last discarded stderr data
    exits,          \* exit codes of the job's encoder runs, in order
    graph,          \* the encoder command last constructed
    now,            \* Date.now() of the process, in ms
    jobs,           \* concurrent requests and the file names they chose
    args,           \* the arguments of a helper function under call
    ret,            \* the values its calls have returned, in order
    recv            \* the stderr chunks runFFmpeg has received, in order

vars == <<variant, req, env, pc, ip, dl, files, have, built, child, nspawn,
          nfetch, resp, nresp, pendingUnlink, errBuf, errSize, nchunks,
          total, dropped, exits, graph>>

nameVars == <<now, jobs>>

callVars == <<args, ret, recv>>

stderrVars == <<errBuf, errSize, nchunks, total, dropped>>

\* no concurrent request has arrived
NoJobs ==
    /\ now = 0
    /\ jobs = [j \in JobIds |-> IdleJob]

\* no helper function is under call
NoArgs == [fn |-> "none"]
NoCalls ==
    /\ args = NoArgs
    /\ ret = << >>
    /\ recv = << >>

\* the handler has not started on the request
Fresh ==
    /\ pc = "recv"
    /\ ip = 1
    /\ dl = "none"
    /\ files = << >>
    /\ have = {}
    /\ built = FALSE
    /\ child = "none"
    /\ nspawn = 0
    /\ nfetch = 0
    /\ resp = NoResp
    /\ nresp = 0
    /\ pendingUnlink = {}
    /\ errBuf = << >>
    /\ errSize = 0
    /\ nchunks = 0
    /\ total = 0
    /\ dropped = "nothing"
    /\ exits = << >>
    /\ graph = NoGraph

Init ==
    /\ variant \in Variants
    /\ req \in Requests(variant)
    /\ env \in Envs(variant)
    /\ Fresh
    /\ NoJobs
    /\ NoCalls

Program == Prog(variant, req)
Cur == Program[ip]
AtOp(o) == pc = "run" /\ ip <= Len(Program) /\ Cur.op = o

Advance == ip' = ip + 1 /\ pc' = "run"

\* the handler's catch block: one 500 response, nothing else
Throw(e) ==
    /\ resp' = ErrResp(variant, e)
    /\ nresp' = nresp + 1
    /\ pc' = "done"
    /\ ip' = ip

\* -------------------------------------------------------------- actions
\* the handler's validation block
Validate ==
    /\ pc = "recv"
    /\ LET s == Validation(variant, req) IN
         IF s = 0
         THEN /\ pc' = "run"
              /\ UNCHANGED <<resp, nresp>>
         ELSE /\ pc' = "done"
              /\ resp' = [status |-> s,
                          error |-> IF s = 400 THEN "required" ELSE "internal",
                          e |-> Err("validation", "-")]
              /\ nresp' = nresp + 1
    /\ UNCHANGED <<callVars, nameVars, exits, graph, variant, req, env, ip, dl, files,
                   have, built, child,
                   nspawn, nfetch, pendingUnlink, stderrVars>>

\* await download(url, ...): the request goes out and the remote behaves
StartFetch ==
    /\ AtOp("fetch")
    /\ \E b \in RemoteBehaviours :
         /\ dl' = b
         /\ files' = PutIf(files, Cur.role, "tmp",
                           DLStart(Cur.kind, b, env.pipe))
    /\ pc' = "fetching"
    /\ nfetch' = nfetch + 1
    /\ UNCHANGED <<callVars, nameVars, exits, graph, variant, req, env, ip, have, built,
                   child, nspawn, resp,
                   nresp, pendingUnlink, stderrVars>>

\* the download promise settles (a hanging download enables nothing)
SettleFetch ==
    /\ pc = "fetching"
    /\ LET o == DLOutcome(Cur.kind, dl, env.pipe) IN
         /\ o # "hang"
         /\ files' = PutIf(files, Cur.role, "tmp",
                           DLEnd(Cur.kind, dl, env.pipe))
         /\ IF o = "resolve"
            THEN /\ have' = have \cup {Cur.role}
                 /\ Advance
                 /\ UNCHANGED <<resp, nresp>>
            ELSE /\ have' = have
                 /\ IF Cur.arg = "swallow"
                    THEN Advance /\ UNCHANGED <<resp, nresp>>
                    ELSE Throw(Err("fetch", dl))
    /\ dl' = "none"
    /\ UNCHANGED <<callVars, nameVars, exits, graph, variant, req, env, built, child,
                   nspawn, nfetch,
                   pendingUnlink, stderrVars>>

\* fs.writeFileSync / fsp.writeFile of a temp file made locally
WriteFile ==
    /\ AtOp("write")
    /\ files' = Put(files, Cur.role, "tmp", "complete")
    /\ have' = have \cup {Cur.role}
    /\ Advance
    /\ UNCHANGED <<callVars, nameVars, exits, graph, variant, req, env, dl, built,
                   child, nspawn, nfetch, resp,
                   nresp, pendingUnlink, stderrVars>>

\* if (!W || !H) throw new Error(`bad resolution: ...`)
ParseResolution ==
    /\ AtOp("parseRes")
    /\ IF req.res = "bad"
       THEN Throw(Err("badResolution", "-"))
       ELSE Advance /\ UNCHANGED <<resp, nresp>>
    /\ UNCHANGED <<callVars, nameVars, exits, graph, variant, req, env, dl, files, have,
                   built, child, nspawn,
                   nfetch, pendingUnlink, stderrVars>>

\* construction of the filter graph / filter string
BuildGraph ==
    /\ AtOp("build")
    /\ built' = TRUE
    /\ graph' = GraphOf(variant, req, Program, ip)
    /\ Advance
    /\ UNCHANGED <<callVars, nameVars, exits, variant, req, env, dl, files, have, child,
                   nspawn, nfetch,
                   resp, nresp, pendingUnlink, stderrVars>>

\* spawn / exec / execFile of ffmpeg
Spawn ==
    /\ AtOp("encode")
    /\ child' = "running"
    /\ nspawn' = nspawn + 1
    /\ pc' = "encoding"
    /\ errBuf' = << >>
    /\ errSize' = 0
    /\ nchunks' = 0
    /\ total' = 0
    /\ dropped' = "nothing"
    /\ UNCHANGED <<callVars, nameVars, exits, graph, variant, req, env, ip, dl, files,
                   have, built, nfetch,
                   resp, nresp, pendingUnlink>>

\* exec and sh run ffmpeg through /bin/sh
ViaShell(ex) == ex \in {"exec", "sh"}

\* the encoder opens its output file and starts writing
EncoderOpensOutput ==
    /\ pc = "encoding"
    /\ child = "running"
    /\ env.engine = "present"
    /\ Cur.role \notin DOMAIN files
    /\ files' = Put(files, Cur.role, Cur.arg, "partial")
    /\ UNCHANGED <<callVars, nameVars, exits, graph, variant, req, env, pc, ip, dl,
                   have, built, child, nspawn,
                   nfetch, resp, nresp, pendingUnlink, stderrVars>>

\* while (errSize > ERR_CAP && errBuf.length) { errSize -= errBuf[0].length; errBuf.shift(); }
RECURSIVE RingTrim(_, _)
RingTrim(buf, size) ==
    IF size > ERR_CAP /\ Len(buf) > 0
    THEN RingTrim(Tail(buf), size - Head(buf))
    ELSE [buf |-> buf, size |-> size]

\* a 'data' handler without the while loop
RingPush_NoTrim(buf, size, c) == [buf |-> Append(buf, c), size |-> size + c]

\* p.stderr.on('data', c => { errSize += c.length; errBuf.push(c); while ... })
RingPush(buf, size, c) == RingTrim(Append(buf, c), size + c)

\* stderr += d.toString()
StrAppend(size, c) == size + c

\* the buffer limit of the executor, 0 when it has none
MaxBufferOf(ex) ==
    CASE ex \in {"exec", "execFileNoCb"} -> DefaultMaxBuffer
      [] ex \in {"sh", "execFileCb"}     -> ShMaxBuffer
      [] OTHER                           -> 0

\* bytes the executor holds after a chunk of c bytes arrived
KeptAfter(ex, buf, size, c) ==
    CASE ex = "ring" -> RingPush(buf, size, c).size
      [] ex \in {"spawnAwait", "closeResp", "spawnCloseOnly", "execFileNoCb"} ->
           StrAppend(size, c)
      [] ex = "stream" -> size
      [] OTHER ->
           IF size + c > MaxBufferOf(ex) THEN MaxBufferOf(ex) ELSE size + c

\* a 'data' event on the encoder's stderr
StderrData ==
    /\ pc = "encoding"
    /\ child = "running"
    /\ env.engine = "present"
    /\ nchunks < MaxChunks
    /\ \E c \in ChunkSizes :
         LET ex == Cur.kind
             over == MaxBufferOf(ex) > 0 /\ total + c > MaxBufferOf(ex)
         IN
         /\ errBuf' = IF ex = "ring" THEN RingPush(errBuf, errSize, c).buf
                      ELSE errBuf
         /\ errSize' = KeptAfter(ex, errBuf, errSize, c)
         /\ total' = total + c
         /\ child' = IF over THEN "killed" ELSE child
         /\ dropped' =
              IF ex = "ring" /\ Len(RingPush(errBuf, errSize, c).buf) <= Len(errBuf)
              THEN "oldest"
              ELSE IF over THEN "newest"
              ELSE dropped
    /\ nchunks' = nchunks + 1
    /\ UNCHANGED <<callVars, nameVars, exits, graph, variant, req, env, pc, ip, dl,
                   files, have, built, nspawn,
                   nfetch, resp, nresp, pendingUnlink>>

\* what the executor does with the child's 'error' event (ENOENT):
\* "reject" the encode promise, "log" it only, or "unhandled" (no listener)
OnChildError(ex) ==
    CASE ex \in {"spawnAwait", "ring", "execFileCb"} -> "reject"
      [] ex \in {"closeResp", "execFileNoCb"}        -> "log"
      [] ex \in {"spawnCloseOnly", "stream"}         -> "unhandled"

\* the ffmpeg binary is absent: the child emits 'error'
ChildError ==
    /\ pc = "encoding"
    /\ child = "running"
    /\ env.engine = "absent"
    /\ ~ViaShell(Cur.kind)
    /\ child' = "errored"
    /\ LET h == OnChildError(Cur.kind) IN
         CASE h = "reject" -> Throw(Err("spawn", "ENOENT"))
           [] h = "log" -> UNCHANGED <<pc, ip, resp, nresp>>
           [] h = "unhandled" -> pc' = "crashed" /\ UNCHANGED <<ip, resp, nresp>>
    /\ UNCHANGED <<callVars, nameVars, exits, graph, variant, req, env, dl, files, have,
                   built, nspawn, nfetch,
                   pendingUnlink, stderrVars>>

\* exit codes the 'close' event can carry in the child's current state
CloseCodes ==
    CASE child = "errored" -> {"-2"}
      [] child = "killed"  -> {"null"}
      [] child = "running" /\ env.engine = "present" -> {"0", "1"}
      [] child = "running" /\ env.engine = "absent" /\ pc = "encoding"
           /\ ViaShell(Cur.kind) -> {"127"}
      [] OTHER -> {}

\* what is at the output path when the encoder exits with the code
OutcomesOf(code) ==
    IF code = "0" THEN {"complete", "empty", "missing"} ELSE {"asis"}

AfterEncode(f, tag, dir, fo) ==
    CASE fo = "asis"    -> f
      [] fo = "missing" -> Remove(f, {tag})
      [] OTHER          -> Put(f, tag, dir, fo)

\* an executor that resolves whatever the exit code
EncodeOk_AnyCode(ex, code) == TRUE

\* the executor's success test: if (code === 0) resolve() else reject(...)
EncodeOk(ex, code) == code = "0"

\* fs.unlink(img), fs.unlink(aud), if (subPath) fs.unlink(subPath)
UnlinkSet(h) == {Img, Aud(1)} \cup (IF Sub \in h THEN {Sub} ELSE {})

\* executors whose 'close' listener writes the response itself
RespondsOnClose(ex) == ex \in {"closeResp", "stream"}

\* the response written by a 'close' listener: server.cjs answers 500
\* 'ffmpeg exit <code>'; runFfmpegStream has sent status 200 before the
\* spawn and ends the text body with [DONE] or [ERROR] ffmpeg exit <code>
CloseResponse(ex, code) ==
    IF code = "0" THEN OkResp
    ELSE [status |-> IF ex = "stream" THEN 200 ELSE 500,
          error |-> "ffmpeg exit",
          e |-> Err("exit", code)]

\* the child's 'close' event
ChildClose ==
    /\ child \in {"running", "errored", "killed"}
    /\ \E code \in CloseCodes : \E fo \in OutcomesOf(code) :
         /\ child' = "closed"
         /\ exits' = Append(exits, code)
         /\ IF pc # "encoding"
            THEN UNCHANGED <<pc, ip, files, resp, nresp, pendingUnlink>>
            ELSE /\ files' = AfterEncode(files, Cur.role, Cur.arg, fo)
                 /\ IF RespondsOnClose(Cur.kind)
                    THEN /\ pendingUnlink' = IF Cur.kind = "closeResp"
                                             THEN UnlinkSet(have)
                                             ELSE pendingUnlink
                         /\ resp' = CloseResponse(Cur.kind, code)
                         /\ nresp' = nresp + 1
                         /\ pc' = "done"
                         /\ ip' = ip
                    ELSE /\ pendingUnlink' = pendingUnlink
                         /\ IF EncodeOk(Cur.kind, code)
                            THEN Advance /\ UNCHANGED <<resp, nresp>>
                            ELSE Throw(Err("exit", code))
    /\ UNCHANGED <<callVars, nameVars, graph, variant, req, env, dl, have, built,
                   nspawn, nfetch,
                   stderrVars>>

\* Promise.allSettled([fsp.unlink(imgPath), fsp.unlink(audPath), ...])
CleanupTemp ==
    /\ AtOp("cleanup")
    /\ pendingUnlink' = UnlinkSet(have)
    /\ Advance
    /\ UNCHANGED <<callVars, nameVars, exits, graph, variant, req, env, dl, files, have,
                   built, child, nspawn,
                   nfetch, resp, nresp, stderrVars>>

\* an issued unlink completes
Unlink ==
    /\ \E f \in pendingUnlink :
         /\ files' = Remove(files, {f})
         /\ pendingUnlink' = pendingUnlink \ {f}
    /\ UNCHANGED <<callVars, nameVars, exits, graph, variant, req, env, pc, ip, dl,
                   have, built, child, nspawn,
                   nfetch, resp, nresp, stderrVars>>

\* res.json({ ok: true, file_url ... })
SendResponse ==
    /\ AtOp("respond")
    /\ resp' = OkResp
    /\ nresp' = nresp + 1
    /\ pc' = "done"
    /\ UNCHANGED <<callVars, nameVars, exits, graph, variant, req, env, ip, dl, files,
                   have, built, child,
                   nspawn, nfetch, pendingUnlink, stderrVars>>

Next ==
    \/ Validate
    \/ StartFetch
    \/ SettleFetch
    \/ WriteFile
    \/ ParseResolution
    \/ BuildGraph
    \/ Spawn
    \/ EncoderOpensOutput
    \/ StderrData
    \/ ChildError
    \/ ChildClose
    \/ CleanupTemp
    \/ Unlink
    \/ SendResponse

allVars == <<vars, nameVars, callVars>>

Spec == Init /\ [][Next]_allVars

\* ------------------------------------------- concurrent requests, names
\* Two requests served by the same process; each names its files one by
\* one at the current Date.now().
InitNames ==
    /\ variant \in Variants
    /\ req \in {r \in Requests(variant) : Validation(variant, r) = 0}
    /\ env = [engine |-> "present", pipe |-> TRUE]
    /\ Fresh
    /\ NoJobs
    /\ NoCalls

Tick ==
    /\ now < MaxClock
    /\ now' = now + 1
    /\ UNCHANGED <<vars, jobs, callVars>>

Arrive ==
    /\ \E j \in JobIds : \E p \in PrefixesOf(variant) :
         /\ jobs[j].st = "idle"
         /\ jobs' = [jobs EXCEPT ![j] = [IdleJob EXCEPT !.st = "running",
                                                        !.prefix = p]]
    /\ UNCHANGED <<vars, now, callVars>>

NameFile ==
    /\ \E j \in JobIds :
         LET J == jobs[j]
             ops == FileOps(Program)
         IN
         /\ J.st = "running"
         /\ J.k < Len(ops)
         /\ LET nm == NameOf(variant, ops[J.k + 1], J.prefix, now, j, J.k + 1)
            IN jobs' = [jobs EXCEPT ![j] =
                   [J EXCEPT !.k = J.k + 1,
                             !.tmps = IF nm.dir = "tmp" THEN @ \cup {nm} ELSE @,
                             !.outs = IF nm.dir = "out" THEN @ \cup {nm} ELSE @]]
    /\ UNCHANGED <<vars, now, callVars>>

Finish ==
    /\ \E j \in JobIds :
         /\ jobs[j].st = "running"
         /\ jobs[j].k = Len(FileOps(Program))
         /\ jobs' = [jobs EXCEPT ![j].st = "done"]
    /\ UNCHANGED <<vars, now, callVars>>

NextNames ==
    \/ Tick
    \/ Arrive
    \/ NameFile
    \/ Finish

SpecNames == InitNames /\ [][NextNames]_allVars

\* ------------------------------------------------- JavaScript values
\* a JSON value of the request body as the builders test it: typeof,
\* truthiness and Number(); "string" stands for a non-numeric,
\* non-empty string, nan marks the number NaN
JNum(n) == [t |-> "number", v |-> n, nan |-> FALSE]
JNaN == [t |-> "number", v |-> 0, nan |-> TRUE]
JUndef == [t |-> "undefined", v |-> 0, nan |-> FALSE]
JTrue == [t |-> "boolean", v |-> 1, nan |-> FALSE]
JStr == [t |-> "string", v |-> 0, nan |-> FALSE]

\* if (x)
Truthy(x) ==
    CASE x.t = "undefined" -> FALSE
      [] x.t = "number"    -> ~x.nan /\ x.v # 0
      [] x.t = "boolean"   -> x.v = 1
      [] OTHER             -> TRUE

\* Number(x)
ToNumber(x) ==
    CASE x.t \in {"number", "boolean"} -> JNum(x.v) @@ [nan |-> x.nan]
      [] OTHER                         -> JNaN

\* Math.max(a, b), Math.min(a, b): NaN when an argument is NaN
MathMax(a, b) ==
    IF a.nan \/ b.nan THEN JNaN ELSE IF a.v >= b.v THEN JNum(a.v) ELSE JNum(b.v)
MathMin(a, b) ==
    IF a.nan \/ b.nan THEN JNaN ELSE IF a.v <= b.v THEN JNum(a.v) ELSE JNum(b.v)

\* x || d
OrElse(x, d) == IF Truthy(x) THEN x ELSE d

\* ----------------------------------------- filter graph strings
\* A filter graph string is the sequence of its lexical elements: a
\* bracketed label, a filter with its numeric parameters, "," and ";".
Tok(k, name, p) == [k |-> k, name |-> name, p |-> p]
Label(name) == Tok("label", name, << >>)
Filt(f, p) == Tok("filter", <<f, 0>>, p)
COMMA == Tok(",", <<"-", 0>>, << >>)
SEMI == Tok(";", <<"-", 0>>, << >>)

\* [0:v], [v], [v0]
InV == <<"0:v", 0>>
VOut == <<"v", 0>>
V0 == <<"v0", 0>>

\* pieces.join(sep)
RECURSIVE Join(_, _)
Join(ss, sep) ==
    IF ss = << >> THEN << >>
    ELSE IF Len(ss) = 1 THEN ss[1]
    ELSE ss[1] \o sep \o Join(Tail(ss), sep)

\* the index of the first element of s equal to x, 0 when there is none
RECURSIVE IndexFrom(_, _, _)
IndexFrom(s, x, i) ==
    IF i > Len(s) THEN 0 ELSE IF s[i] = x THEN i ELSE IndexFrom(s, x, i + 1)
IndexOf(s, x) == IndexFrom(s, x, 1)

\* str.replace(pat, repl) for a one-element pattern: the first occurrence
ReplaceFirst(s, x, repl) ==
    LET i == IndexOf(s, x)
    IN  IF i = 0 THEN s
        ELSE SubSeq(s, 1, i - 1) \o repl \o SubSeq(s, i + 1, Len(s))

\* str.replace(/pat$/, repl) for a one-element pattern: only at the end
ReplaceAtEnd(s, x, repl) ==
    IF s # << >> /\ s[Len(s)] = x THEN SubSeq(s, 1, Len(s) - 1) \o repl ELSE s

\* buildMotion({ motion }, W, H): scale*1.06, setsar, then crop or
\* zoompan + scale
buildMotion(options, W, H) ==
    LET pre == <<Filt("scale", <<W, H>>), COMMA, Filt("setsar", <<1>>)>>
    IN  IF options.motion = "zoom"
        THEN pre \o <<COMMA, Filt("zoompan", <<W, H>>), COMMA, Filt("scale", <<W, H>>)>>
        ELSE pre \o <<COMMA, Filt("crop", <<W, H>>)>>

\* the rgbashift, tmix, noise and vignette pieces of buildFilterChain
StyleFilters_p4(f) ==
    (IF Truthy(f.rgbashift)
     THEN LET amt == IF f.rgbashift.t = "number" THEN f.rgbashift ELSE JNum(2)
          IN  <<COMMA, Filt("rgbashift", <<amt.v>>)>>
     ELSE << >>)
    \o (IF Truthy(f.tmix)
        THEN LET frames == IF f.tmix.t = "number" THEN f.tmix ELSE JNum(2)
             IN  <<COMMA, Filt("tmix", <<MathMax(JNum(2), MathMin(JNum(5), frames)).v>>)>>
        ELSE << >>)
    \o (IF f.glitchOverlay THEN <<COMMA, Filt("noise", << >>)>> ELSE << >>)
    \o (IF Truthy(f.vignette)
        THEN LET strength == MathMin(JNum(1), MathMax(JNum(0), ToNumber(f.vignette)))
             IN  IF ~strength.nan /\ strength.v > 0
                 THEN <<COMMA, Filt("vignette", <<strength.v>>)>>
                 ELSE << >>
        ELSE << >>)

\* one stage of the audio chain as text: [in]...filter[out]
StageText(st) ==
    [i \in 1..Len(st.ins) |-> Label(st.ins[i])] \o <<Filt(st.f, <<st.n>>), Label(st.out)>>

\* afilters: the stages joined by ";"
AudioText(stages) == Join([i \in 1..Len(stages) |-> StageText(stages[i])], <<SEMI>>)

\* a builder that stamps the graph with Date.now()
buildFilterChain_Clock(options, W, H, fps, inputs) ==
    LET chain == <<Label(InV)>> \o buildMotion(options, W, H)
                 \o StyleFilters_p4(options.filters)
                 \o <<COMMA, Filt("fps", <<fps, now>>), COMMA,
                      Filt("format", << >>), Label(VOut)>>
    IN  [filterComplex |->
             chain \o <<SEMI>> \o AudioText(AudioFilters(inputs.audioCount)),
         maps |-> <<Label(VOut), Label(AudOut)>>]

\* buildFilterChain(options, W, H, fps, inputs)
buildFilterChain(options, W, H, fps, inputs) ==
    LET chain0 == <<Label(InV)>> \o buildMotion(options, W, H)
                  \o StyleFilters_p4(options.filters)
                  \o <<COMMA, Filt("fps", <<fps>>), COMMA, Filt("format", << >>), Label(VOut)>>
        afilters == AudioText(AudioFilters(inputs.audioCount))
        chain == IF options.srtPath
                 THEN ReplaceFirst(chain0, Label(VOut),
                                   <<COMMA, Filt("subtitles", << >>), Label(VOut)>>)
                 ELSE chain0
    IN  [filterComplex |-> chain \o <<SEMI>> \o afilters,
         maps |-> <<Label(VOut), Label(AudOut)>>]

\* the filter pieces of the single-audio handler (part_002): as in
\* buildFilterChain but frames = Number(filters.tmix) || 2
StyleFilters_p2(f) ==
    (IF Truthy(f.rgbashift)
     THEN LET amt == IF f.rgbashift.t = "number" THEN f.rgbashift ELSE JNum(2)
          IN  <<COMMA, Filt("rgbashift", <<amt.v>>)>>
     ELSE << >>)
    \o (IF Truthy(f.tmix)
        THEN LET frames == MathMax(JNum(2),
                               MathMin(JNum(5), OrElse(ToNumber(f.tmix), JNum(2))))
             IN  <<COMMA, Filt("tmix", <<frames.v>>)>>
        ELSE << >>)
    \o (IF f.glitchOverlay THEN <<COMMA, Filt("noise", << >>)>> ELSE << >>)
    \o (IF Truthy(f.vignette)
        THEN LET strength == MathMin(JNum(1), MathMax(JNum(0), ToNumber(f.vignette)))
             IN  IF ~strength.nan /\ strength.v > 0
                 THEN <<COMMA, Filt("vignette", <<strength.v>>)>>
                 ELSE << >>
        ELSE << >>)

\* vchain / achain / filterComplex of the single-audio handler
vchain(options, W, H, fps, inputs) ==
    LET v == <<Label(InV)>> \o buildMotion(options, W, H)
             \o StyleFilters_p2(options.filters)
             \o (IF options.srtPath
                 THEN <<COMMA, Filt("subtitles", << >>)>> ELSE << >>)
             \o <<COMMA, Filt("fps", <<fps>>), COMMA, Filt("format", << >>),
                  Label(VOut)>>
        achain == StageText(Stage("normalize+pan", 0, <<InPad(1)>>, AudOut))
    IN  [filterComplex |-> v \o <<SEMI>> \o achain,
         maps |-> <<Label(VOut), Label(AudOut)>>]

\* buildMotionFilter(style) of server.js: pieces.join(",") + "[v]"
buildMotionFilter(opts) ==
    Join(<< <<Filt("scale", << >>)>>, <<Filt("crop", << >>)>>,
            <<Filt("rotate", << >>)>>, <<Filt("eq", << >>)>> >>
         \o (IF opts.enableNoise THEN << <<Filt("noise", << >>)>> >> ELSE << >>)
         \o (IF opts.enableRgbShift
             THEN << <<Filt("rgbashift", <<opts.rgbShift>>)>> >> ELSE << >>)
         \o (IF opts.enableVignette THEN << <<Filt("vignette", << >>)>> >> ELSE << >>)
         \o << <<Filt("fps", <<opts.fps>>)>>, <<Filt("format", << >>)>> >>,
         <<COMMA>>)
    \o <<Label(VOut)>>

\* a stream specifier given to -map without brackets, such as 1:a
StreamSpec(name) == Tok("stream", name, << >>)

\* server.js: subtitlesFilter and
\* filter = subtitles ? motion.replace(/\[v\]$/, "[v0]") + subtitlesFilter + "[v]" : motion
\* subtitles is "absent", "empty" (an object without srt_url and srt_text)
\* or "srt"
filter_js(style, subtitles) ==
    LET motion == buildMotionFilter(style)
        subtitlesFilter == IF subtitles = "srt"
                           THEN <<COMMA, Filt("subtitles", << >>)>> ELSE << >>
    IN  [filterComplex |->
             IF subtitles # "absent"
             THEN ReplaceAtEnd(motion, Label(VOut), <<Label(V0)>>)
                  \o subtitlesFilter \o <<Label(VOut)>>
             ELSE motion,
         maps |-> <<Label(VOut), StreamSpec(InPad(1))>>]

\* buildFilter(resolution, fps, motion) of server.cjs
buildFilter(motion, fps) ==
    <<Label(InV)>>
    \o (IF motion = "zoom" THEN <<Filt("scale", <<108>>), COMMA>> ELSE << >>)
    \o <<Filt("scale", << >>), COMMA, Filt("crop", << >>), COMMA,
         Filt("fps", <<fps>>), COMMA, Filt("format", << >>), Label(V0)>>

\* server.cjs: finalFilter and finalVideoLabel
finalFilter(motion, fps, subPath) ==
    LET filter == buildFilter(motion, fps)
    IN  IF subPath
        THEN [filterComplex |->
                  filter \o <<SEMI, Label(V0), Filt("subtitles", << >>), COMMA,
                              Filt("format", << >>), Label(VOut)>>,
              maps |-> <<Label(VOut), StreamSpec(InPad(1))>>]
        ELSE [filterComplex |-> filter,
              maps |-> <<Label(V0), StreamSpec(InPad(1))>>]

\* ------------------------------------------- helper functions under call
\* values a caller can send for filters.rgbashift, filters.tmix and
\* filters.vignette
StyleValues == {JUndef, JTrue, JStr, JNum(-5), JNum(3), JNum(MaxStyle)}

FilterOptions ==
    [rgbashift : StyleValues, tmix : StyleValues,
     glitchOverlay : BOOLEAN, vignette : StyleValues]

\* fcOpts = { motion, filters, _srtPath, ... }
ChainOptions == [motion : {"none", "zoom"}, filters : FilterOptions, srtPath : BOOLEAN]

\* style of server.js's buildMotionFilter(style)
MotionStyles ==
    [enableNoise : BOOLEAN, enableRgbShift : BOOLEAN, enableVignette : BOOLEAN,
     rgbShift : {2, MaxStyle}, fps : {DefaultFps}]

Args_buildFilterChain ==
    [fn : {"buildFilterChain"}, options : ChainOptions, W : {DefaultW},
     H : {DefaultH}, fps : {DefaultFps}, audioCount : 0..MaxAudio]
Args_vchain ==
    [fn : {"vchain"}, options : ChainOptions, W : {DefaultW},
     H : {DefaultH}, fps : {DefaultFps}, audioCount : {1}]
Args_filter_js ==
    [fn : {"filter_js"}, style : MotionStyles, subtitles : {"absent", "empty", "srt"}]
Args_finalFilter ==
    [fn : {"finalFilter"}, motion : {"none", "zoom"}, fps : {DefaultFps},
     subPath : BOOLEAN]

GraphFns == {"buildFilterChain", "vchain", "filter_js", "finalFilter"}

\* one more call may be made
CanCall(fn) == args.fn = fn /\ Len(ret) < MaxCalls

\* the call returns v; nothing else of the process changes
Returns(v) ==
    /\ ret' = Append(ret, v)
    /\ UNCHANGED <<vars, nameVars, args, recv>>

Call_buildFilterChain ==
    /\ CanCall("buildFilterChain")
    /\ Returns(buildFilterChain(args.options, args.W, args.H, args.fps,
                                [audioCount |-> args.audioCount]))

Call_vchain ==
    /\ CanCall("vchain")
    /\ Returns(vchain(args.options, args.W, args.H, args.fps,
                      [audioCount |-> args.audioCount]))

Call_filter_js ==
    /\ CanCall("filter_js")
    /\ Returns(filter_js(args.style, args.subtitles))

Call_finalFilter ==
    /\ CanCall("finalFilter")
    /\ Returns(finalFilter(args.motion, args.fps, args.subPath))

\* ------------------------------------------------ resolution strings
\* a resolution string is the sequence of its characters; "a" stands for
\* any character that is neither a decimal digit nor x
ResChars == {"0", "1", "x", "a"}
DigitChars == {"0", "1"}
RECURSIVE SeqsUpTo(_, _)
SeqsUpTo(S, n) ==
    IF n = 0 THEN {<< >>}
    ELSE LET shorter == SeqsUpTo(S, n - 1)
         IN  shorter \cup {Append(t, c) : t \in shorter, c \in S}
ResStrings == SeqsUpTo(ResChars, MaxLen)

\* \d+
IsDigits(s) == s # << >> /\ \A i \in DOMAIN s : s[i] \in DigitChars
\* parseInt(digits, 10)
RECURSIVE ParseInt(_)
ParseInt(s) ==
    IF s = << >> THEN 0
    ELSE 10 * ParseInt(SubSeq(s, 1, Len(s) - 1)) + (IF s[Len(s)] = "1" THEN 1 ELSE 0)

\* String(s).match(/^(\d+)x(\d+)$/i): the two groups, or << >> for null
Match(s) ==
    LET i == IndexOf(s, "x")
        m1 == SubSeq(s, 1, i - 1)
        m2 == SubSeq(s, i + 1, Len(s))
    IN  IF i > 0 /\ IsDigits(m1) /\ IsDigits(m2) THEN <<m1, m2>> ELSE << >>

\* s.split('x')
RECURSIVE Split(_)
Split(s) ==
    LET i == IndexOf(s, "x")
    IN  IF i = 0 THEN <<s>>
        ELSE <<SubSeq(s, 1, i - 1)>> \o Split(SubSeq(s, i + 1, Len(s)))

\* Number(part) for a part of a split string: "" is 0, digits are their
\* value, anything else is NaN
NumberOf(part) ==
    IF part = << >> THEN JNum(0)
    ELSE IF IsDigits(part) THEN JNum(ParseInt(part))
    ELSE JNaN

Accepted(w, h) == [rejected |-> FALSE, W |-> w, H |-> h]
Rejected == [rejected |-> TRUE, W |-> 0, H |-> 0]

\* parseResolution(s) of the multi-audio handler: no match gives the
\* default size
parseResolution(s) ==
    LET m == Match(s)
    IN  IF m = << >> THEN Accepted(DefaultW, DefaultH)
        ELSE Accepted(ParseInt(m[1]), ParseInt(m[2]))

\* part_005: if (!m) return res.status(400)...; size = { w, h }
resolution_p5(s) ==
    LET m == Match(s)
    IN  IF m = << >> THEN Rejected
        ELSE Accepted(ParseInt(m[1]), ParseInt(m[2]))

\* /make/story: const [w, h] = resolution.split('x').map(Number);
\* if (!w || !h) return res.status(400)...
resolution_story(s) ==
    LET parts == Split(s)
        w == NumberOf(parts[1])
        h == IF Len(parts) >= 2 THEN NumberOf(parts[2]) ELSE JUndef
    IN  IF ~Truthy(w) \/ ~Truthy(h) THEN Rejected ELSE Accepted(w.v, h.v)

Args_resolution ==
    [fn : {"parseResolution", "resolution_p5", "resolution_story"}, s : ResStrings]

Call_parseResolution ==
    /\ CanCall("parseResolution")
    /\ Returns(parseResolution(args.s))

Call_resolution_p5 ==
    /\ CanCall("resolution_p5")
    /\ Returns(resolution_p5(args.s))

Call_resolution_story ==
    /\ CanCall("resolution_story")
    /\ Returns(resolution_story(args.s))

\* ------------------------------------------------- artifact addresses
\* An address is the sequence of its parts; "/" is a single slash, so a
\* base address may end in one. << >> is the empty string (variable unset).
Bases == {<< >>, <<"https://svc">>, <<"https://svc", "/">>}
\* file names: outfile_prefix may hold a character that
\* encodeURIComponent escapes
OutNames == {<<"out_1.mp4">>, <<"my", " ", "clip_1.mp4">>}

\* s.replace(/\/+$/, '')
RECURSIVE StripSlashes(_)
StripSlashes(s) ==
    IF s # << >> /\ s[Len(s)] = "/" THEN StripSlashes(SubSeq(s, 1, Len(s) - 1))
    ELSE s

\* encodeURIComponent(name)
encodeURIComponent(s) == [i \in DOMAIN s |-> IF s[i] = " " THEN "%20" ELSE s[i]]

\* a || b for strings
StrOr(a, b) == IF a # << >> THEN a ELSE b

\* baseUrl() of the multi-audio handler
baseUrl(e) == StrOr(e.PUBLIC_BASE_URL, StrOr(e.RENDER_EXTERNAL_URL, << >>))

\* url = baseUrl() ? `${baseUrl()}/output/${outName}` : `/output/${outName}`
url(e, outName) ==
    IF baseUrl(e) # << >> THEN baseUrl(e) \o <<"/output/">> \o outName
    ELSE <<"/output/">> \o outName

\* server.js: BASE_URL = process.env.BASE_URL || "http://localhost:" + PORT
BASE_URL(e) == StrOr(e.BASE_URL, <<"http://localhost:PORT">>)

\* fullUrl = `${BASE_URL.replace(/\/+$/, "")}/output/${path.basename(outFile)}`
fullUrl(e, outName) == StripSlashes(BASE_URL(e)) \o <<"/output/">> \o outName

\* buildBaseUrl(req) of server.cjs
buildBaseUrl(e) ==
    IF e.PUBLIC_BASE_URL # << >> THEN StripSlashes(e.PUBLIC_BASE_URL)
    ELSE <<"proto://host">>

\* file_url = `${base}/output/${encodeURIComponent(outName)}`
file_url(e, outName) ==
    buildBaseUrl(e) \o <<"/output/">> \o encodeURIComponent(outName)

ProcessEnvs ==
    [PUBLIC_BASE_URL : Bases, RENDER_EXTERNAL_URL : Bases, BASE_URL : Bases]

Args_url ==
    [fn : {"url", "fullUrl", "file_url"}, e : ProcessEnvs, outName : OutNames]

Call_url ==
    /\ CanCall("url")
    /\ Returns(url(args.e, args.outName))

Call_fullUrl ==
    /\ CanCall("fullUrl")
    /\ Returns(fullUrl(args.e, args.outName))

Call_file_url ==
    /\ CanCall("file_url")
    /\ Returns(file_url(args.e, args.outName))

\* ------------------------------------------- encoder argument list
\* arr.lastIndexOf(x): the index of the last element equal to x, 0 when
\* there is none
RECURSIVE LastIndexFrom(_, _, _)
LastIndexFrom(s, x, i) ==
    IF i = 0 THEN 0 ELSE IF s[i] = x THEN i ELSE LastIndexFrom(s, x, i - 1)
LastIndexOf(s, x) == LastIndexFrom(s, x, Len(s))

\* values a caller can send as video.preset, video.crf, video.threads and
\* outfile_prefix; "" stands for an omitted field
OptionStrings == {"", "slow", "-map", "-filter_complex"}

\* String(x || d) for a caller's string
StringOr(x, d) == IF x = "" THEN d ELSE x

\* the args array of the multi-audio handler before the back-fill, with
\* "" in the three placeholder positions
ffArgs(video, audioCount, outPath) ==
    <<"-y", "-hide_banner", "-nostdin", "-loglevel", "error",
      "-loop", "1", "-i", "imgPath">>
    \o Flat([k \in 1..audioCount |-> <<"-i", "audio">>])
    \o <<"-filter_complex", "", "-map", "", "-map", "",
         "-c:v", "libx264",
         "-preset", StringOr(video.preset, "veryfast"),
         "-crf", StringOr(video.crf, "23"),
         "-pix_fmt", "yuv420p",
         "-threads", StringOr(video.threads, "1"),
         "-c:a", "aac", "-b:a", "128k", "-shortest", outPath>>

\* fi = args.indexOf("-filter_complex") + 1; args[fi] = filterComplex;
\* mi1 = args.indexOf("-map") + 1; args[mi1] = vOut;
\* mi2 = args.lastIndexOf("-map") + 1; args[mi2] = aOut
backFill(a, filterComplex, vOut, aOut) ==
    LET fi == IndexOf(a, "-filter_complex") + 1
        a1 == [a EXCEPT ![fi] = filterComplex]
        mi1 == IndexOf(a1, "-map") + 1
        a2 == [a1 EXCEPT ![mi1] = vOut]
        mi2 == LastIndexOf(a2, "-map") + 1
    IN  [a2 EXCEPT ![mi2] = aOut]

Args_backFill ==
    [fn : {"backFill"},
     video : [preset : OptionStrings, crf : OptionStrings, threads : OptionStrings],
     outfile_prefix : OptionStrings,
     audioCount : 1..MaxAudio]

\* path.join(OUT_DIR, `${outfile_prefix}_${Date.now()}.mp4`): never one of
\* the option strings themselves
OutPathOf(prefix) == IF prefix = "-map" THEN "OUT/-map_0.mp4" ELSE "OUT/out_0.mp4"

Call_backFill ==
    /\ CanCall("backFill")
    /\ LET before == ffArgs(args.video, args.audioCount, OutPathOf(args.outfile_prefix))
       IN  Returns([before |-> before,
                    after |-> backFill(before, "filterComplex", "[v]", "[aud]")])

\* every argument tuple a helper function is called with
CallArgs ==
    Args_buildFilterChain \cup Args_vchain \cup Args_filter_js
    \cup Args_finalFilter \cup Args_resolution
    \cup Args_url \cup Args_backFill

\* the process is idle: a helper function is called on arguments chosen
\* at the start, while the clock runs
InitCalls ==
    /\ variant = "p4"
    /\ req = CHOOSE r \in Requests("p4") : Validation("p4", r) = 0
    /\ env = [engine |-> "present", pipe |-> TRUE]
    /\ Fresh
    /\ NoJobs
    /\ args \in CallArgs
    /\ ret = << >>
    /\ recv = << >>

NextCalls ==
    \/ Tick
    \/ Call_buildFilterChain
    \/ Call_vchain
    \/ Call_filter_js
    \/ Call_finalFilter
    \/ Call_parseResolution
    \/ Call_resolution_p5
    \/ Call_resolution_story
    \/ Call_url
    \/ Call_fullUrl
    \/ Call_file_url
    \/ Call_backFill

SpecCalls == InitCalls /\ [][NextCalls]_allVars

\* ------------------------------------------- runFFmpeg's stderr capture
\* lengths c.length of the chunks the 'data' events carry: short writes,
\* a full pipe read, and chunks that fill or exceed ERR_CAP on their own
RingChunks == {1024, 64 * 1024, ERR_CAP, ERR_CAP + 1}

InitRing ==
    /\ variant = "cjs2"
    /\ req = CHOOSE r \in Requests("cjs2") : Validation("cjs2", r) = 0
    /\ env = [engine |-> "present", pipe |-> TRUE]
    /\ Fresh
    /\ NoJobs
    /\ NoCalls

\* p.stderr.on('data', c => { ... }) of runFFmpeg
RingData ==
    /\ Len(recv) < MaxRecv
    /\ \E c \in RingChunks :
         /\ errBuf' = RingPush(errBuf, errSize, c).buf
         /\ errSize' = RingPush(errBuf, errSize, c).size
         /\ recv' = Append(recv, c)
    /\ UNCHANGED <<variant, req, env, pc, ip, dl, files, have, built, child,
                   nspawn, nfetch, resp, nresp, pendingUnlink, nchunks, total,
                   dropped, exits, graph, nameVars, args, ret>>

NextRing == RingData

SpecRing == InitRing /\ [][NextRing]_allVars

\* ----------------------------------------------------------- properties
TmpFiles == {t \in DOMAIN files : files[t].dir = "tmp"}
OutFiles == {t \in DOMAIN files : files[t].dir = "out"}

\* the handlers registered on /make/segments
SegmentsJob == variant \notin {"story", "make"}

\* the request names no audio: audio_urls absent or empty and no audio_url
NoAudio == req.audKind \in {"absent", "list"} /\ ListLen(req) = 0
           /\ ~req.audio_url

\* C1: in every /make/segments job no remote fetch is in flight once the
\* filter graph has been constructed or an encoder has been started, no
\* encoder is started before the graph is built, and a success response is
\* sent only after the encoder's exit.
C1_StrictOrder ==
    SegmentsJob =>
        /\ (pc = "fetching" => ~built /\ nspawn = 0)
        /\ (nspawn > 0 => built)
        /\ (resp.status = 200 => child = "closed")

\* C2: a request without any audio reference is answered 400 by the
\* validation step, and the job never fetches, never spawns an encoder and
\* never creates a file.
C2_EmptyAudioRejected ==
    NoAudio =>
        /\ pc \in {"recv", "done"}
        /\ (pc = "done" => resp.status = 400 /\ nresp = 1)
        /\ nfetch = 0
        /\ nspawn = 0
        /\ ~built
        /\ DOMAIN files = {}

\* C2 witness: an image is given, the audio list is empty, and the job has
\* ended in the 400 response.
C2_Witness ==
    /\ req.img
    /\ req.audKind = "list"
    /\ req.n = 0
    /\ pc = "done"
    /\ resp.status = 400

\* C3: the served output directory holds only complete artifacts, and none
\* at all of a job that was answered with a failure.
C3_NoPartialPublish ==
    /\ \A t \in OutFiles : files[t].st = "complete"
    /\ (resp.status = 500 => OutFiles = {})

\* C4: once the job is answered and every issued unlink has completed, no
\* temp file of the job is left.
C4_TempCleaned ==
    (pc = "done" /\ pendingUnlink = {}) => TmpFiles = {}

\* the job's first fetch, the image, met HTTP 404
Image404 ==
    /\ nfetch = 1
    /\ (pc = "fetching" /\ dl = "http404") \/ resp.e = Err("fetch", "http404")

\* C5: after a 404 on the image the job ends in a 500 fetch-failure
\* response with no encoder spawned and no temp file left behind.
C5_Image404Clean ==
    Image404 =>
        /\ nspawn = 0
        /\ pc \in {"fetching", "done"}
        /\ (pc = "done" => resp.status = 500 /\ TmpFiles = {})

\* a fetch the program has passed without obtaining its file
SwallowedFetch ==
    \E j \in 1..(ip - 1) :
        /\ j <= Len(Program)
        /\ Program[j].op = "fetch"
        /\ Program[j].role \notin have

\* C6: when a fetch of the job has failed, no encoder has been started and
\* the job's response is a failure.
C6_FetchFailureFailsJob ==
    (SwallowedFetch \/ resp.e.kind = "fetch") =>
        /\ nspawn = 0
        /\ (pc = "done" => resp.status = 500)

\* C7: a download in flight can always settle (resolve or reject).
C7_FetchTerminates ==
    pc = "fetching" => ENABLED SettleFetch

\* the outputs the program encodes into the output directory
EncodedOutputs ==
    {Program[j].role : j \in {i \in 1..Len(Program) :
        Program[i].op = "encode" /\ Program[i].arg = "out"}}

\* C8: a success response implies every output of the job exists and is
\* non-empty, and a response reporting an exit code is a failure.
C8_SuccessIffOutput ==
    /\ (resp.status = 200 =>
          \A t \in EncodedOutputs :
              t \in DOMAIN files /\ files[t].st = "complete")
    /\ (resp.e.kind = "exit" => resp.status = 500)

\* C9: the stderr bytes an executor keeps never exceed the cap, and
\* discarded data is the oldest.
C9_StderrBounded ==
    /\ errSize <= ERR_CAP
    /\ dropped \in {"nothing", "oldest"}

\* C10: with the encoder binary absent the request is answered, by a
\* failure of its own kind, after a single invocation attempt, and nothing
\* is in the output directory.
C10_EngineNotFound ==
    (env.engine = "absent" /\ nspawn > 0) =>
        /\ pc # "crashed"
        /\ nspawn = 1
        /\ OutFiles = {}
        /\ (pc = "done" => resp.status = 500 /\ resp.e.kind = "spawn")

\* an encoder run of the job has exited with a non-zero code
SomeExitFailed == \E k \in 1..Len(exits) : exits[k] # "0"

\* C11: a job with a failed encoder run is answered, if at all, with an
\* error status and an error body, never with status 200.
C11_FailureNeverSuccess ==
    (SomeExitFailed /\ nresp > 0) =>
        /\ resp.status >= 400
        /\ resp.error # "none"

\* the last k lines of a stderr text of `size` bytes received in `chunks`
\* 'data' events, each chunk taken as one line
TailLines(size, chunks, k) ==
    IF chunks <= k THEN size ELSE k * (size \div chunks)

\* bytes of encoder stderr in the body of the failure response that
\* handler v writes for an encode error:
\*   p4      detail is err.stack of Error(`ffmpeg exit ${code}`): no stderr
\*   make    error is a fixed string
\*   cjs1    detail: stderr.split('\n').slice(-12)
\*   p1s     every stderr chunk was written to the body as it arrived
\*   others  error / detail is err.message, which embeds the stderr kept
StderrInBody(v, kept, chunks, written) ==
    CASE v \in {"p4", "make"} -> 0
      [] v = "cjs1"           -> TailLines(kept, chunks, DETAIL_LINES)
      [] v = "p1s"            -> written
      [] OTHER                -> kept

\* C12: the stderr excerpt in an encode-failure response is at most
\* DETAIL_CAP bytes, and is shorter than the stderr written whenever the
\* encoder wrote more than that.
C12_DetailBounded ==
    resp.e.kind = "exit" =>
        LET d == StderrInBody(variant, errSize, nchunks, total) IN
        /\ d <= DETAIL_CAP
        /\ (total > DETAIL_CAP => d < total)

\* two requests are in flight together
InFlight(j1, j2) ==
    j1 # j2 /\ jobs[j1].st = "running" /\ jobs[j2].st = "running"

\* C13: two jobs in flight together have named no common path in the
\* output directory.
C13_OutputPathsDistinct ==
    \A j1, j2 \in JobIds :
        InFlight(j1, j2) => jobs[j1].outs \cap jobs[j2].outs = {}

\* C14: two jobs in flight together have named no common path in
\* temporary storage.
C14_TempPathsDistinct ==
    \A j1, j2 \in JobIds :
        InFlight(j1, j2) => jobs[j1].tmps \cap jobs[j2].tmps = {}

\* the number a sequence of decimal digits denotes
RECURSIVE DigitsValue(_)
DigitsValue(d) ==
    IF d = << >> THEN 0
    ELSE 10 * DigitsValue(SubSeq(d, 1, Len(d) - 1)) + d[Len(d)]

\* C15: in per-segment mode every encode is made from the audio of its
\* own position, and a success response follows exactly N encoder runs that
\* all exited 0, wrote N distinct outputs <<out, 1>> .. <<out, N>> and
\* returns N addresses whose zero-padded suffixes are 1..N in order.
C15_PerSegmentArtifacts ==
    variant = "perseg" =>
        /\ (pc = "encoding" => graph.audio = <<Cur.role[2]>>)
        /\ OutFiles \subseteq {<<"out", k>> : k \in 1..req.n}
        /\ (resp.status = 200 =>
              LET outs == OutputsDone(Program, ip)
                  urls == Urls(Program, ip)
              IN
              /\ nspawn = req.n
              /\ exits = [k \in 1..req.n |-> "0"]
              /\ outs = [k \in 1..req.n |-> <<"out", k>>]
              /\ Len(urls) = req.n
              /\ \A k \in 1..req.n :
                    Len(urls[k]) >= 2 /\ DigitsValue(urls[k]) = k)

\* C15 witness: a per-segment job with two audio references has been
\* answered 200 with both outputs in the output directory.
C15_Witness ==
    /\ variant = "perseg"
    /\ req.n = 2
    /\ resp.status = 200
    /\ OutFiles = {<<"out", 1>>, <<"out", 2>>}

IsSeg(x) == x[1] = "seg"

\* C16: in /make/story the input list of the concatenation command holds
\* the segments 1..N in request order, a padding segment only when padding
\* is requested and only directly between segment i and segment i+1, and
\* its node count n is the length of the list, all of whose files come
\* from encoder runs that exited 0.
C16_StoryConcatOrder ==
    (variant = "story" /\ graph.n > 0) =>
        LET L == graph.concat IN
        /\ graph.n = Len(L)
        /\ SelectSeq(L, IsSeg) = [i \in 1..req.n |-> <<"seg", i>>]
        /\ Len(L) = IF req.pad THEN 2 * req.n - 1 ELSE req.n
        /\ \A k \in 1..Len(L) :
              L[k][1] = "pad" =>
                  /\ req.pad
                  /\ 1 < k /\ k < Len(L)
                  /\ L[k - 1] = <<"seg", L[k][2]>>
                  /\ L[k + 1] = <<"seg", L[k][2] + 1>>
        /\ Len(exits) >= Len(L)
        /\ \A k \in 1..Len(L) : exits[k] = "0"

\* C16 witness: a story of two audio references with padding has built
\* its concatenation command over three segment files.
C16_Witness ==
    /\ variant = "story"
    /\ req.n = 2
    /\ req.pad
    /\ graph.concat = << <<"seg", 1>>, <<"pad", 1>>, <<"seg", 2>> >>
    /\ pc = "encoding"

\* the encoder runs a /make/story job of n audio references makes when
\* every one succeeds: n segments, a pad per gap, one concatenation
StoryEncodes(n, pad) == n + (IF pad THEN n - 1 ELSE 0) + 1

\* C17: a /make/story job with one audio reference runs exactly one encoder
\* subprocess; with two or more it runs one per segment, one per padding
\* gap and one concatenation, the concatenation last and only after every
\* segment encode exited 0.
C17_StoryEncodeCount ==
    variant = "story" =>
        /\ (req.n = 1 => nspawn <= 1)
        /\ ((req.n >= 2 /\ resp.status = 200) =>
                nspawn = StoryEncodes(req.n, req.pad))
        /\ (graph.n > 0 =>
                /\ nspawn \in {graph.n, graph.n + 1}
                /\ \A k \in 1..graph.n : exits[k] = "0")

IsEncode(o) == o.op = "encode"
\* the encoder runs of the handler, in the order it makes them
EncodeOps(p) == SelectSeq(p, IsEncode)

\* the k-th encoder run of the job was a segment or padding encode and
\* did not exit 0
SegmentFailedAt(k) ==
    /\ k \in 1..Len(exits)
    /\ exits[k] # "0"
    /\ IsSegEncode(EncodeOps(Program)[k])

\* C18: in /make/story, once a segment or padding encode has failed no
\* further encoder is started (neither a segment nor the concatenation),
\* the response is a failure and no output file exists for the job.
C18_StorySegmentFailure ==
    variant = "story" =>
        \A k \in 1..Len(exits) :
            SegmentFailedAt(k) =>
                /\ k = Len(exits)
                /\ nspawn = k
                /\ graph.n = 0
                /\ pc = "done"
                /\ resp.status = 500
                /\ OutFiles = {}

\* C18 witness: the second segment encode of a story exited 1 after the
\* first had succeeded, and the job has answered.
C18_Witness ==
    /\ variant = "story"
    /\ req.n = 2
    /\ exits = <<"0", "1">>
    /\ SegmentFailedAt(2)
    /\ resp.status = 500

\* a single-artifact /make/segments job whose request carries exactly two
\* audio references, both in audio_urls
TwoAudioJob ==
    /\ SegmentsJob
    /\ variant # "perseg"
    /\ req.audKind = "list"
    /\ req.n = 2
    /\ ~req.audio_url

\* C19: a single-artifact /make/segments job with two audio references
\* that answers success has given the encoder both references, the first
\* before the second; none is dropped.
C19_BothAudiosPresent ==
    (TwoAudioJob /\ resp.status = 200 /\ ~SomeExitFailed) =>
        graph.audio = <<1, 2>>

IsAudioFetch(o) == o.op = "fetch" /\ o.role[1] = "aud"
\* audios: the audio files downloaded before position i, in push order
AudiosAt(p, i) ==
    LET done == SelectSeq(SubSeq(p, 1, i - 1), IsAudioFetch)
    IN  [k \in 1..Len(done) |-> done[k].role]

\* the stages of chain F that read pad x
Readers(F, x) == {s \in DOMAIN F : \E j \in DOMAIN F[s].ins : F[s].ins[j] = x}
ConcatStages(F) == {s \in DOMAIN F : F[s].f = "concat"}

\* C20: the audio chain buildFilterChain emits for N >= 2 inputs
\* normalizes each encoder input k exactly once into its own label [a<k>]
\* and ends in one concat stage with n = N that reads [a1]..[aN] in that
\* order; encoder input k is the k-th audio reference of the request; for
\* N = 1 the track is normalized into [aud] and there is no concat stage.
C20_AudioChain ==
    (variant = "p4" /\ graph.afilters # << >>) =>
        LET F == graph.afilters
            N == req.n
        IN
        /\ N >= 1
        /\ graph.audio = [k \in 1..N |-> k]
        /\ AudiosAt(Program, ip) = [k \in 1..N |-> Aud(k)]
        /\ (N = 1 =>
              /\ Len(F) = 1
              /\ F[1].f = "normalize+pan"
              /\ F[1].ins = <<InPad(1)>>
              /\ F[1].out = AudOut
              /\ ConcatStages(F) = {})
        /\ (N >= 2 =>
              /\ \A k \in 1..N :
                    /\ Cardinality(Readers(F, InPad(k))) = 1
                    /\ \A s \in Readers(F, InPad(k)) :
                          /\ F[s].f = "normalize"
                          /\ F[s].ins = <<InPad(k)>>
                          /\ F[s].out = Lbl(k)
                    /\ Cardinality(Readers(F, Lbl(k))) = 1
              /\ ConcatStages(F) = {Len(F)}
              /\ F[Len(F)].n = N
              /\ F[Len(F)].ins = [k \in 1..N |-> Lbl(k)]
              /\ F[Len(F)].out = AudOut)

\* C20 witness: a two-audio job of the buildFilterChain handler has built
\* its command (two normalize stages and a concat) and runs the encoder.
C20_Witness ==
    /\ variant = "p4"
    /\ req.n = 2
    /\ Len(graph.afilters) = 3
    /\ graph.afilters[3].f = "concat"
    /\ pc = "encoding"

\* motion and colour / texture stages of the video chain, and the stages
\* of its format normalization
VisualStages == {"scale", "setsar", "crop", "zoompan", "rotate", "eq",
                 "rgbashift", "tmix", "noise", "vignette"}
NormStages == {"fps", "format"}
IsStage(t, names) == t.k = "filter" /\ t.name[1] \in names
\* the graphs the filter builders have returned
Graphs ==
    IF args.fn \in GraphFns THEN {ret[c].filterComplex : c \in 1..Len(ret)} ELSE {}

\* C21: in every filter graph built with subtitles, the subtitles stage
\* comes after every motion and colour / texture stage and before the
\* format normalization stages fps and format=yuv420p.
C21_SubtitlesBeforeNormalization ==
    \A g \in Graphs : \A i \in DOMAIN g :
        IsStage(g[i], {"subtitles"}) =>
            /\ \A j \in DOMAIN g : IsStage(g[j], VisualStages) => j < i
            /\ \A j \in DOMAIN g : IsStage(g[j], NormStages) => j > i
            /\ \E j \in DOMAIN g : IsStage(g[j], NormStages)

\* the label at position j of graph g names an output pad: it follows a
\* filter, directly or after other output labels; otherwise it names an
\* input pad of the filter that follows
RECURSIVE IsOutputLabel(_, _)
IsOutputLabel(g, j) ==
    /\ g[j].k = "label"
    /\ j > 1
    /\ \/ g[j - 1].k = "filter"
       \/ IsOutputLabel(g, j - 1)
IsInputLabel(g, j) == g[j].k = "label" /\ ~IsOutputLabel(g, j)

\* [0:v] and [k:a] name streams of the input files, not labels of the graph
IsStreamName(name) == name[1] \in {"0:v", "in"}

\* positions where the graph defines / consumes the label
DefinedAt(g, name) == {j \in DOMAIN g : IsOutputLabel(g, j) /\ g[j].name = name}
ConsumedAt(g, name) == {j \in DOMAIN g : IsInputLabel(g, j) /\ g[j].name = name}
LabelsOf(g) == {g[j].name : j \in {i \in DOMAIN g : g[i].k = "label"}} \
               {n \in {g[j].name : j \in DOMAIN g} : IsStreamName(n)}
MappedLabels(r) == {r.maps[i].name : i \in {m \in DOMAIN r.maps : r.maps[m].k = "label"}}

\* C22: in every filter graph handed to the encoder each label is defined
\* exactly once, each label named by a -map option is defined, and each
\* other (intermediate) label is consumed exactly once.
C22_LabelsWellFormed ==
    args.fn \in GraphFns =>
        \A c \in 1..Len(ret) :
            LET g == ret[c].filterComplex IN
            /\ \A name \in LabelsOf(g) : Cardinality(DefinedAt(g, name)) = 1
            /\ \A name \in MappedLabels(ret[c]) : DefinedAt(g, name) # {}
            /\ \A name \in LabelsOf(g) \ MappedLabels(ret[c]) :
                   Cardinality(ConsumedAt(g, name)) = 1

ResolutionFns == {"parseResolution", "resolution_p5", "resolution_story"}

\* the string is <digits>x<digits> with both numbers positive
TwoPositive(s) ==
    \E i \in DOMAIN s :
        /\ s[i] = "x"
        /\ IsDigits(SubSeq(s, 1, i - 1))
        /\ IsDigits(SubSeq(s, i + 1, Len(s)))
        /\ ParseInt(SubSeq(s, 1, i - 1)) > 0
        /\ ParseInt(SubSeq(s, i + 1, Len(s))) > 0

\* C23: a resolution string is accepted only if it is two positive
\* integers joined by x, and the width and height then used are those
\* two integers; every other string is rejected.
C23_ResolutionChecked ==
    args.fn \in ResolutionFns =>
        \A c \in 1..Len(ret) :
            ~ret[c].rejected =>
                /\ TwoPositive(args.s)
                /\ \E i \in DOMAIN args.s :
                      /\ args.s[i] = "x"
                      /\ ret[c].W = ParseInt(SubSeq(args.s, 1, i - 1))
                      /\ ret[c].H = ParseInt(SubSeq(args.s, i + 1, Len(args.s)))

\* the parameters with which stage f occurs in graph g
ParamsOf(g, f) == {g[i].p : i \in {j \in DOMAIN g : IsStage(g[j], {f})}}

\* C24: whatever numbers the caller sends, the style parameters that
\* reach the graph are clamped: tmix frames lie in 2..5, a vignette stage
\* has a strength in 0..1 and is left out at strength 0, and the
\* rgbashift amount stays inside a range that does not grow with the
\* caller's number (here: it is never as large as the largest number a
\* caller sends).
C24_StyleClamped ==
    args.fn \in {"buildFilterChain", "vchain"} =>
        \A g \in Graphs :
            /\ \A p \in ParamsOf(g, "tmix") : p[1] \in 2..5
            /\ \A p \in ParamsOf(g, "vignette") : p[1] \in 0..1 /\ p[1] # 0
            /\ \A p \in ParamsOf(g, "rgbashift") : -MaxStyle < p[1] /\ p[1] < MaxStyle

BuilderFns == {"buildFilterChain", "filter_js"}

ConfiguredBase ==
    CASE args.fn = "url"      -> StrOr(args.e.PUBLIC_BASE_URL, args.e.RENDER_EXTERNAL_URL)
      [] args.fn = "fullUrl"  -> args.e.BASE_URL
      [] args.fn = "file_url" -> args.e.PUBLIC_BASE_URL

\* C26: the address returned is base + "/output/" + filename when a base
\* address is configured and "/output/" + filename when none is, filename
\* being the name of the file written.
C26_ArtifactAddress ==
    args.fn \in {"url", "fullUrl", "file_url"} =>
        \A c \in 1..Len(ret) :
            ret[c] = IF ConfiguredBase # << >>
                     THEN ConfiguredBase \o <<"/output/">> \o args.outName
                     ELSE <<"/output/">> \o args.outName

\* C27: a job that has started its encoder never has two responses, and
\* once the handler is finished with it (it has run to its end or the
\* process has stopped on an unhandled event) it has exactly one.
C27_ExactlyOneResponse ==
    nspawn >= 1 =>
        /\ nresp <= 1
        /\ (pc \in {"done", "crashed"} => nresp = 1)

RECURSIVE SumSeq(_)
SumSeq(s) == IF s = << >> THEN 0 ELSE Head(s) + SumSeq(Tail(s))

\* s is the last Len(s) elements of t
IsSuffix(s, t) ==
    /\ Len(s) <= Len(t)
    /\ s = SubSeq(t, Len(t) - Len(s) + 1, Len(t))

\* C28: after every 'data' event of runFFmpeg errSize is the sum of the
\* lengths of the chunks in errBuf, errSize is at most ERR_CAP, and errBuf
\* is the most recent chunks received, in arrival order.
C28_RingInvariant ==
    /\ errSize = SumSeq(errBuf)
    /\ errSize <= ERR_CAP
    /\ IsSuffix(errBuf, recv)

\* C28 witness: chunks have been dropped from the front and some are kept.
C28_Witness ==
    /\ Len(recv) >= 4
    /\ errBuf # << >>
    /\ Len(errBuf) < Len(recv)
    /\ errSize > 64 * 1024

\* C29: after every 'data' event of runFFmpeg errBuf is non-empty and its
\* last element is the chunk just received.
C29_LastChunkRetained ==
    recv # << >> =>
        /\ errBuf # << >>
        /\ errBuf[Len(errBuf)] = recv[Len(recv)]

\* C30: after the back-fill the filter graph stands right after
\* '-filter_complex', [v] right after the first '-map', [aud] right after
\* the second '-map', and every other argument is as it was.
C30_BackFillPositions ==
    args.fn = "backFill" =>
        \A c \in 1..Len(ret) :
            LET before == ret[c].before
                after == ret[c].after
                fc == IndexOf(before, "-filter_complex")
                m1 == IndexOf(before, "-map")
                m2 == IndexFrom(before, "-map", m1 + 1)
            IN  /\ Len(after) = Len(before)
                /\ after[fc + 1] = "filterComplex"
                /\ after[m1 + 1] = "[v]"
                /\ after[m2 + 1] = "[aud]"
                /\ \A j \in DOMAIN before :
                       j \notin {fc + 1, m1 + 1, m2 + 1} => after[j] = before[j]

====
